---- MODULE Spec2Model ----
(***************************************************************************)
(* A model of ospd_openvas/nvticache.py: the NVTICache client, which       *)
(* resolves the name of the NVT info cache from the installed gvm-libs     *)
(* version and decodes the VT records that the scanner keeps in a shared   *)
(* redis store.                                                            *)
(*                                                                         *)
(* Python values are modelled as follows.  A str is a sequence of          *)
(* symbols; a symbol is either one separator character ("|", "=", ",",     *)
(* " ", "-", a digit) or an opaque word that holds no separator.  A list   *)
(* is a sequence, a dict is a function from its keys.  A value that may    *)
(* be None is wrapped: NoneVal or Val(x).                                  *)
(***************************************************************************)
EXTENDS Integers, Sequences, FiniteSets, TLC

VARIABLES
    installed,         \* environment: what `pkg-config --modversion libgvm_util` yields
    databases,         \* store: the cache names for which a tagged database exists
    nvt,               \* store: oid -> the list under key "nvt:<oid>" (<<>>: no such key)
    prefs,             \* store: oid -> the list under key "oid:<oid>:prefs"
    nvti_cache_name,   \* NVTICache._nvti_cache_name
    pc,                \* position of the client: "idle" or inside get_nvt_params
    frame,             \* locals of the running get_nvt_params (oid, prefs read so far)
    ret,               \* outcome of the last completed operation
    calls,             \* calls to the collaborators made by the last (or running) operation
    log,               \* logger.error events of the last operation
    n_probe,           \* number of version probes run so far
    n_db_find,         \* number of db_find lookups issued so far
    caller_tags,       \* caller: the tag string it holds for _parse_metadata_tags
    audit              \* history: the store states one VT went through during get_nvt_params

vars == <<installed, databases, nvt, prefs, nvti_cache_name, pc, frame, ret,
          calls, log, n_probe, n_db_find, caller_tags, audit>>

(***************************************************************************)
(* Optional values                                                         *)
(***************************************************************************)
NoneVal == [none |-> TRUE]
Val(x) == [none |-> FALSE, v |-> x]

(***************************************************************************)
(* str operations                                                          *)
(***************************************************************************)
\* all sequences over S of length at most n
RECURSIVE SeqsUpTo(_, _)
SeqsUpTo(S, n) ==
    IF n = 0 THEN {<<>>}
    ELSE LET shorter == SeqsUpTo(S, n - 1)
         IN  shorter \cup {Append(s, c) : s \in {t \in shorter : Len(t) = n - 1}, c \in S}

\* s[i..] starts with sep
StartsAt(s, sep, i) ==
    /\ i + Len(sep) - 1 <= Len(s)
    /\ SubSeq(s, i, i + Len(sep) - 1) = sep

\* str.find(sep) + 1: position of the leftmost occurrence of sep in s, 0 if none
Find(s, sep) ==
    IF \E i \in 1..Len(s) : StartsAt(s, sep, i)
    THEN CHOOSE i \in 1..Len(s) :
            /\ StartsAt(s, sep, i)
            /\ \A j \in 1..(i - 1) : ~StartsAt(s, sep, j)
    ELSE 0

\* str.split(sep): scan left to right, cut at each occurrence of sep
RECURSIVE split(_, _)
split(s, sep) ==
    LET i == Find(s, sep)
    IN  IF i = 0 THEN <<s>>
        ELSE <<SubSeq(s, 1, i - 1)>> \o split(SubSeq(s, i + Len(sep), Len(s)), sep)

\* str.split(sep, 1): at most one cut
split1(s, sep) ==
    LET i == Find(s, sep)
    IN  IF i = 0 THEN <<s>>
        ELSE <<SubSeq(s, 1, i - 1), SubSeq(s, i + Len(sep), Len(s))>>

\* str.strip(): drop leading and trailing blanks
RECURSIVE lstrip(_)
lstrip(s) == IF s # <<>> /\ Head(s) = " " THEN lstrip(Tail(s)) ELSE s

RECURSIVE rstrip(_)
rstrip(s) ==
    IF s # <<>> /\ s[Len(s)] = " " THEN rstrip(SubSeq(s, 1, Len(s) - 1)) ELSE s

strip(s) == rstrip(lstrip(s))

(***************************************************************************)
(* Versions.  The probe's output is a dotted version string, modelled as   *)
(* the sequence of its numeric components: "20.4.1" is <<20, 4, 1>>.       *)
(***************************************************************************)
MaxVersionLen == 3
VersionComponents == {0, 1, 3, 4, 10, 20, 21}
Versions == SeqsUpTo(VersionComponents, MaxVersionLen) \ {<<>>}
\* the probe either raises (CalledProcessError, PermissionError) or prints a version
ProbeError == [raised |-> "CalledProcessError"]
ProbeOutput(v) == [stdout |-> v]

SUPPORTED_NVTICACHE_VERSIONS == << <<20, 4>> >>

\* Version._key of pkg_resources.parse_version: the release with its trailing
\* zeros dropped
RECURSIVE parse_version(_)
parse_version(v) ==
    IF v # <<>> /\ v[Len(v)] = 0 THEN parse_version(SubSeq(v, 1, Len(v) - 1)) ELSE v

\* Python's tuple comparison a >= b: the first differing position decides, and
\* a proper prefix is the smaller one
RECURSIVE TupleGE(_, _)
TupleGE(a, b) ==
    IF b = <<>> THEN TRUE
    ELSE IF a = <<>> THEN FALSE
    ELSE IF Head(a) # Head(b) THEN Head(a) > Head(b)
    ELSE TupleGE(Tail(a), Tail(b))

\* Version.base_version.split('.')[0]: the first component of the full release
base_major(v) == v[1]

\* (a variant that forgets the comparison of the major components)
is_compatible_any_major(installed_v, supported_v) ==
    TupleGE(parse_version(installed_v), parse_version(supported_v))

\* the condition of the loop over the supported versions
is_compatible(installed_v, supported_v) ==
    /\ TupleGE(parse_version(installed_v), parse_version(supported_v))
    /\ base_major(installed_v) = base_major(supported_v)

\* "nvticache{}".format(version_string)
cache_name(version_string) == [prefix |-> "nvticache", version |-> version_string]

\* (a variant that stores the name before it checks the version)
_set_nvti_cache_name_store_first ==
    IF installed = ProbeError
    THEN [raised |-> TRUE, error |-> "OspdOpenvasError", name |-> NoneVal]
    ELSE [raised |-> \A i \in 1..Len(SUPPORTED_NVTICACHE_VERSIONS) :
                        ~is_compatible(installed.stdout, SUPPORTED_NVTICACHE_VERSIONS[i]),
          error |-> "OspdOpenvasError",
          name |-> Val(cache_name(installed.stdout))]

\* _set_nvti_cache_name: the name it stores, or the error it raises
_set_nvti_cache_name ==
    IF installed = ProbeError
    THEN [raised |-> TRUE, error |-> "OspdOpenvasError", name |-> NoneVal]
    ELSE IF \E i \in 1..Len(SUPPORTED_NVTICACHE_VERSIONS) :
                is_compatible(installed.stdout, SUPPORTED_NVTICACHE_VERSIONS[i])
         THEN [raised |-> FALSE, error |-> "",
               name |-> Val(cache_name(installed.stdout))]
         ELSE [raised |-> TRUE, error |-> "OspdOpenvasError", name |-> NoneVal]

\* _get_nvti_cache_name: the probe is run only while no name is cached.
\* probed: whether the subprocess was run; name: the value of the field afterwards
\* (cached is the value of the field before the call)
_get_nvti_cache_name(cached) ==
    IF cached = NoneVal
    THEN [probed |-> TRUE] @@ _set_nvti_cache_name
    ELSE [probed |-> FALSE, raised |-> FALSE, error |-> "", name |-> cached]

(***************************************************************************)
(* dict operations                                                         *)
(***************************************************************************)
EmptyDict == [k \in {} |-> <<>>]

\* d[k] = v
Put(d, k, v) == [x \in DOMAIN d \cup {k} |-> IF x = k THEN v ELSE d[x]]

\* d.update(e)
Update(d, e) == [x \in DOMAIN d \cup DOMAIN e |-> IF x \in DOMAIN e THEN e[x] ELSE d[x]]

Min(a, b) == IF a <= b THEN a ELSE b

\* a str made of one opaque word
Word(w) == <<w>>

(***************************************************************************)
(* The store client (ospd_openvas.db), as the client sees it               *)
(***************************************************************************)
NVT_FILENAME_POS == 0
NVT_TAGS_POS == 7
NVT_CVES_POS == 8
NVT_XREFS_POS == 10
NVT_TIMEOUT_POS == 12
NVT_NAME_POS == 14
LIST_FIRST_POS == 0
LIST_LAST_POS == -1

\* get_kb_context(): the context of the main kb
get_kb_context == [kind |-> "kb"]

\* db_find(name): the context of the database tagged with name, None if there is none
db_find(name) ==
    IF name \in databases THEN Val([kind |-> "cache", name |-> name]) ELSE NoneVal

\* what is stored under the cache name in its database
FeedVersion == Word("feed")

\* get_single_item(name, ctx): the feed version kept under the cache name
get_feed_item(name, ctx) ==
    IF ctx # NoneVal /\ name \in databases THEN Val(FeedVersion) ELSE NoneVal

\* the position after the last element a range [start, end] selects (end < 0
\* counts from the end of the list)
range_end(list, end) == IF end < 0 THEN Len(list) + end + 1 ELSE Min(end + 1, Len(list))

\* get_list_item(key, ctx, start, end) on the list stored under key: the
\* elements start..end; a key that does not exist reads as the empty list or
\* as no list at all
get_list_item(list, start, end) ==
    IF list = <<>> THEN {NoneVal, Val(<<>>)}
    ELSE {Val(SubSeq(list, start + 1, range_end(list, end)))}

\* get_single_item(key, ctx, index) on the list stored under key
get_single_item(list, index) ==
    IF index + 1 <= Len(list) THEN Val(list[index + 1]) ELSE NoneVal

(***************************************************************************)
(* Tag grammar                                                             *)
(***************************************************************************)
\* the loop of _parse_metadata_tags over tags[i..], from the state acc
RECURSIVE parse_tags_loop(_, _, _, _)
parse_tags_loop(tags, oid, i, acc) ==
    IF i > Len(tags) THEN acc
    ELSE LET pair == split1(tags[i], <<"=">>)
         IN  IF Len(pair) # 2
             THEN \* ValueError on unpacking: logged, the segment is skipped
                  parse_tags_loop(tags, oid, i + 1,
                      [acc EXCEPT !.log = Append(@, [tag |-> tags[i], oid |-> oid])])
             ELSE parse_tags_loop(tags, oid, i + 1,
                      [acc EXCEPT !.tags_dict = Put(@, pair[1], pair[2])])

\* (a variant that cuts a segment at every "=" and keeps the last part)
_parse_metadata_tags_split_all(tags_str, oid) ==
    LET tags == split(tags_str, <<"|">>)
        lastval(seg) == LET p == split(seg, <<"=">>) IN p[Len(p)]
        RECURSIVE loop(_, _)
        loop(i, acc) ==
            IF i > Len(tags) THEN acc
            ELSE IF Find(tags[i], <<"=">>) = 0
                 THEN loop(i + 1, [acc EXCEPT !.log =
                                     Append(@, [tag |-> tags[i], oid |-> oid])])
                 ELSE loop(i + 1, [acc EXCEPT !.tags_dict =
                                     Put(@, split(tags[i], <<"=">>)[1], lastval(tags[i]))])
    IN  loop(1, [tags_dict |-> EmptyDict, log |-> <<>>])

\* _parse_metadata_tags(tags_str, oid): the dict returned and the errors logged
_parse_metadata_tags(tags_str, oid) ==
    parse_tags_loop(split(tags_str, <<"|">>), oid, 1,
                    [tags_dict |-> EmptyDict, log |-> <<>>])

(***************************************************************************)
(* Record decoder                                                          *)
(***************************************************************************)
subelem ==
    << Word("filename"), Word("required_keys"), Word("mandatory_keys"),
       Word("excluded_keys"), Word("required_udp_ports"), Word("required_ports"),
       Word("dependencies"), Word("tag"), Word("cve"), Word("bid"), Word("xref"),
       Word("category"), Word("timeout"), Word("family"), Word("name") >>

refs_subelem == << Word("cve"), Word("bid"), Word("xref") >>

SkippedFields == {Word("cve"), Word("bid"), Word("xref"), Word("tag")}

\* (a variant that copies the empty fields too)
RECURSIVE metadata_loop_keep_empty(_, _, _, _)
metadata_loop_keep_empty(resp, oid, i, acc) ==
    IF i > Min(Len(subelem), Len(resp)) THEN acc
    ELSE LET child == subelem[i]
             res == resp[i]
         IN  IF child \notin SkippedFields
             THEN metadata_loop_keep_empty(resp, oid, i + 1,
                      [acc EXCEPT !.custom = Put(@, child, res)])
             ELSE IF child = Word("tag")
             THEN LET t == _parse_metadata_tags(res, oid)
                  IN  metadata_loop_keep_empty(resp, oid, i + 1,
                          [custom |-> Update(acc.custom, t.tags_dict),
                           log |-> acc.log \o t.log])
             ELSE metadata_loop_keep_empty(resp, oid, i + 1, acc)

\* the loop `for child, res in zip(subelem, resp)` of get_nvt_metadata from
\* position i, acc holding custom and the errors logged so far
RECURSIVE metadata_loop(_, _, _, _)
metadata_loop(resp, oid, i, acc) ==
    IF i > Min(Len(subelem), Len(resp)) THEN acc
    ELSE LET child == subelem[i]
             res == resp[i]
         IN  IF child \notin SkippedFields /\ res # <<>>
             THEN metadata_loop(resp, oid, i + 1,
                      [acc EXCEPT !.custom = Put(@, child, res)])
             ELSE IF child = Word("tag")
             THEN LET t == _parse_metadata_tags(res, oid)
                  IN  metadata_loop(resp, oid, i + 1,
                          [custom |-> Update(acc.custom, t.tags_dict),
                           log |-> acc.log \o t.log])
             ELSE metadata_loop(resp, oid, i + 1, acc)

\* get_nvt_metadata after its read: what it returns for the reply resp
nvt_metadata(resp, oid) ==
    IF resp = NoneVal \/ Len(resp.v) = 0
    THEN [kind |-> "None", value |-> EmptyDict, log |-> <<>>]
    ELSE LET acc == metadata_loop(resp.v, oid, 1, [custom |-> EmptyDict, log |-> <<>>])
         IN  [kind |-> "value", value |-> acc.custom, log |-> acc.log]

\* (a variant that gives an empty field no references at all)
RECURSIVE refs_loop_empty_list(_, _, _)
refs_loop_empty_list(resp, i, refs) ==
    IF i > Min(Len(refs_subelem), Len(resp)) THEN refs
    ELSE refs_loop_empty_list(resp, i + 1,
             Put(refs, refs_subelem[i],
                 IF resp[i] = <<>> THEN <<>> ELSE split(resp[i], <<",", " ">>)))

\* the loop of get_nvt_refs
RECURSIVE refs_loop(_, _, _)
refs_loop(resp, i, refs) ==
    IF i > Min(Len(refs_subelem), Len(resp)) THEN refs
    ELSE refs_loop(resp, i + 1, Put(refs, refs_subelem[i], split(resp[i], <<",", " ">>)))

\* get_nvt_refs after its read
nvt_refs(resp) ==
    IF resp = NoneVal \/ Len(resp.v) = 0
    THEN [kind |-> "None", value |-> EmptyDict]
    ELSE [kind |-> "value", value |-> refs_loop(resp.v, 1, EmptyDict)]

(***************************************************************************)
(* Parameter builder                                                       *)
(***************************************************************************)
Digits == {"0", "1", "2", "3", "4", "5", "6", "7", "8", "9"}

DigitValue(c) ==
    CASE c = "0" -> 0 [] c = "1" -> 1 [] c = "2" -> 2 [] c = "3" -> 3 [] c = "4" -> 4
      [] c = "5" -> 5 [] c = "6" -> 6 [] c = "7" -> 7 [] c = "8" -> 8 [] c = "9" -> 9

RECURSIVE digits_value(_, _)
digits_value(s, acc) ==
    IF s = <<>> THEN acc ELSE digits_value(Tail(s), 10 * acc + DigitValue(Head(s)))

\* int(s): blanks around it are dropped, then an optional sign and at least one
\* digit; anything else is a ValueError
int(s) ==
    LET t == strip(s)
        signed == t # <<>> /\ Head(t) \in {"-", "+"}
        body == IF signed THEN Tail(t) ELSE t
    IN  IF body = <<>> \/ \E i \in 1..Len(body) : body[i] \notin Digits
        THEN [raised |-> TRUE, error |-> "ValueError", value |-> 0]
        ELSE [raised |-> FALSE, error |-> "",
              value |-> IF signed /\ Head(t) = "-" THEN 0 - digits_value(body, 0)
                        ELSE digits_value(body, 0)]

\* the synthesized entry for the script timeout
timeout_param(timeout) ==
    [id |-> Word("0"), type |-> Word("entry"), name |-> Word("timeout"),
     description |-> Word("Script Timeout"), default |-> timeout]

\* the descriptor built from the segments of one preference (elem has at least
\* three segments, and a fourth if the type is not empty)
pref_param(elem) ==
    [id |-> elem[1], type |-> elem[3], name |-> strip(elem[2]),
     description |-> Word("Description"),
     default |-> IF elem[3] # <<>> THEN elem[4] ELSE <<>>]

\* the loop `for nvt_pref in prefs` of get_nvt_params from entry i
RECURSIVE prefs_loop(_, _, _)
prefs_loop(ps, i, vt_params) ==
    IF i > Len(ps) THEN [kind |-> "value", value |-> vt_params, error |-> ""]
    ELSE LET elem == split(ps[i], <<"|", "|", "|">>)
         IN  IF Len(elem) < 3 \/ (elem[3] # <<>> /\ Len(elem) < 4)
             THEN \* elem[2], elem[1] or elem[3] is out of range
                  [kind |-> "raise", value |-> EmptyDict, error |-> "IndexError"]
             ELSE prefs_loop(ps, i + 1, Put(vt_params, elem[1], pref_param(elem)))

\* (a variant that also synthesizes the entry for a timeout of zero)
nvt_params_zero_timeout(prefs_read, timeout) ==
    IF timeout = NoneVal
    THEN [kind |-> "None", value |-> EmptyDict, error |-> ""]
    ELSE LET n == int(timeout.v)
         IN  IF n.raised
             THEN [kind |-> "raise", value |-> EmptyDict, error |-> n.error]
             ELSE prefs_loop(IF prefs_read = NoneVal THEN <<>> ELSE prefs_read.v, 1,
                             IF n.value >= 0
                             THEN Put(EmptyDict, Word("0"), timeout_param(timeout.v))
                             ELSE EmptyDict)

\* get_nvt_params after its two reads
nvt_params(prefs_read, timeout) ==
    IF timeout = NoneVal
    THEN [kind |-> "None", value |-> EmptyDict, error |-> ""]
    ELSE LET n == int(timeout.v)
         IN  IF n.raised
             THEN [kind |-> "raise", value |-> EmptyDict, error |-> n.error]
             ELSE prefs_loop(IF prefs_read = NoneVal THEN <<>> ELSE prefs_read.v, 1,
                             IF n.value > 0
                             THEN Put(EmptyDict, Word("0"), timeout_param(timeout.v))
                             ELSE EmptyDict)

(***************************************************************************)
(* The operations of the client                                            *)
(***************************************************************************)
MaxCalls == 2
OIDs == {"1.2.3.4", "1.2.3.5"}

NoRet == [op |-> "", arg |-> <<>>, kind |-> "", value |-> EmptyDict, error |-> ""]
NoFrame == [oid |-> "", prefs |-> NoneVal]

ProbeCall == [fn |-> "pkg-config"]
DbFindCall(name) == [fn |-> "db_find", name |-> name]
ReadCall(fn, ctx, key, reply) == [fn |-> fn, ctx |-> ctx, key |-> key, reply |-> reply]
NvtKey(oid) == [kind |-> "nvt", oid |-> oid]
PrefsKey(oid) == [kind |-> "prefs", oid |-> oid]

\* History of the running (or last) get_nvt_params, kept where a specification
\* switches it on: the state of the VT's two keys at the first read (line 134),
\* every state they went through up to the second read (line 135) and their
\* state at the second read; absent_after_present remembers that some call
\* returned None (line 138) for a VT whose record existed at the first read.
StoreState(oid) == [nvt |-> nvt[oid], prefs |-> prefs[oid]]
NoStoreState == [nvt |-> <<>>, prefs |-> <<>>]
NoAudit == [on |-> FALSE, first |-> NoStoreState, seen |-> {}, last |-> NoStoreState,
            absent_after_present |-> FALSE]
AuditOn == [NoAudit EXCEPT !.on = TRUE]
audit_first_read(a, s) ==
    IF a.on THEN [a EXCEPT !.first = s, !.seen = {s}, !.last = s] ELSE a
audit_write(a, s) ==
    IF a.on THEN [a EXCEPT !.seen = @ \cup {s}, !.last = s] ELSE a
audit_return(a, kind) ==
    IF a.on
    THEN [a EXCEPT !.absent_after_present = @ \/ (kind = "None" /\ a.first.nvt # <<>>)]
    ELSE a

\* get_redis_context(): resolve the name, then look its database up.
\* cached: the name field before the call; name: the field after it
get_redis_context(cached) ==
    LET r == _get_nvti_cache_name(cached)
    IN  [raised |-> r.raised, error |-> r.error, name |-> r.name,
         probes |-> IF r.probed THEN 1 ELSE 0,
         ctx |-> IF r.raised THEN NoneVal ELSE db_find(r.name.v),
         calls |-> (IF r.probed THEN <<ProbeCall>> ELSE <<>>)
                   \o (IF r.raised THEN <<>> ELSE <<DbFindCall(r.name.v)>>)]

GetRedisContext ==
    /\ pc = "idle"
    /\ n_probe < MaxCalls
    /\ n_db_find < MaxCalls
    /\ LET r == get_redis_context(nvti_cache_name)
       IN  /\ nvti_cache_name' = r.name
           /\ n_probe' = n_probe + r.probes
           /\ n_db_find' = n_db_find + (IF r.raised THEN 0 ELSE 1)
           /\ calls' = r.calls
           /\ ret' = [op |-> "get_redis_context", arg |-> <<>>,
                      kind |-> IF r.raised THEN "raise"
                               ELSE IF r.ctx = NoneVal THEN "None" ELSE "value",
                      value |-> r.ctx, error |-> r.error]
    /\ log' = <<>>
    /\ UNCHANGED <<installed, databases, nvt, prefs, pc, frame, caller_tags, audit>>

\* get_feed_version(): the context, then the name again, then one read
GetFeedVersion ==
    /\ pc = "idle"
    /\ n_probe < MaxCalls
    /\ n_db_find < MaxCalls
    /\ LET r == get_redis_context(nvti_cache_name)
           again == _get_nvti_cache_name(r.name)
           reply == get_feed_item(again.name.v, r.ctx)
       IN  IF r.raised
           THEN /\ nvti_cache_name' = r.name
                /\ n_probe' = n_probe + r.probes
                /\ n_db_find' = n_db_find
                /\ calls' = r.calls
                /\ ret' = [op |-> "get_feed_version", arg |-> <<>>, kind |-> "raise",
                           value |-> NoneVal, error |-> r.error]
           ELSE /\ nvti_cache_name' = again.name
                /\ n_probe' = n_probe + r.probes + (IF again.probed THEN 1 ELSE 0)
                /\ n_db_find' = n_db_find + 1
                /\ calls' = r.calls
                            \o (IF again.probed THEN <<ProbeCall>> ELSE <<>>)
                            \o <<ReadCall("get_single_item", r.ctx, again.name.v, reply)>>
                /\ ret' = [op |-> "get_feed_version", arg |-> <<>>,
                           kind |-> IF reply = NoneVal THEN "None" ELSE "value",
                           value |-> reply, error |-> ""]
    /\ log' = <<>>
    /\ UNCHANGED <<installed, databases, nvt, prefs, pc, frame, caller_tags, audit>>

\* get_nvt_metadata(oid): one ranged read with the kb context, then the decoding
GetNvtMetadata(oid) ==
    /\ pc = "idle"
    /\ \E resp \in get_list_item(nvt[oid], NVT_FILENAME_POS, NVT_NAME_POS) :
          LET r == nvt_metadata(resp, oid)
          IN  /\ ret' = [op |-> "get_nvt_metadata", arg |-> oid, kind |-> r.kind,
                         value |-> r.value, error |-> ""]
              /\ log' = r.log
              /\ calls' = <<ReadCall("get_list_item", get_kb_context, NvtKey(oid), resp)>>
    /\ UNCHANGED <<installed, databases, nvt, prefs, nvti_cache_name, pc, frame,
                   n_probe, n_db_find, caller_tags, audit>>

\* get_nvt_refs(oid): one ranged read with the kb context, then the decoding
GetNvtRefs(oid) ==
    /\ pc = "idle"
    /\ \E resp \in get_list_item(nvt[oid], NVT_CVES_POS, NVT_XREFS_POS) :
          LET r == nvt_refs(resp)
          IN  /\ ret' = [op |-> "get_nvt_refs", arg |-> oid, kind |-> r.kind,
                         value |-> r.value, error |-> ""]
              /\ calls' = <<ReadCall("get_list_item", get_kb_context, NvtKey(oid), resp)>>
    /\ log' = <<>>
    /\ UNCHANGED <<installed, databases, nvt, prefs, nvti_cache_name, pc, frame,
                   n_probe, n_db_find, caller_tags, audit>>

\* get_nvt_params(oid), up to its first read: get_nvt_prefs(ctx, oid)
GetNvtParamsPrefs(oid) ==
    /\ pc = "idle"
    /\ \E reply \in get_list_item(prefs[oid], LIST_FIRST_POS, LIST_LAST_POS) :
          /\ frame' = [oid |-> oid, prefs |-> reply]
          /\ calls' = <<ReadCall("get_list_item", get_kb_context, PrefsKey(oid), reply)>>
    /\ pc' = "get_nvt_timeout"
    /\ audit' = audit_first_read(audit, StoreState(oid))
    /\ UNCHANGED <<installed, databases, nvt, prefs, nvti_cache_name, ret, log,
                   n_probe, n_db_find, caller_tags>>

\* a variant of the second step that reads the preference list again, next to
\* the timeout, and builds the result from that later list
GetNvtParamsTimeout_prefs_reread ==
    /\ pc = "get_nvt_timeout"
    /\ \E reply \in get_list_item(prefs[frame.oid], LIST_FIRST_POS, LIST_LAST_POS) :
          LET timeout == get_single_item(nvt[frame.oid], NVT_TIMEOUT_POS)
              r == nvt_params(reply, timeout)
          IN  /\ ret' = [op |-> "get_nvt_params", arg |-> frame.oid, kind |-> r.kind,
                         value |-> r.value, error |-> r.error]
              /\ calls' = Append(calls, ReadCall("get_single_item", get_kb_context,
                                                 NvtKey(frame.oid), timeout))
              /\ audit' = audit_return(audit, r.kind)
    /\ pc' = "idle"
    /\ frame' = NoFrame
    /\ log' = <<>>
    /\ UNCHANGED <<installed, databases, nvt, prefs, nvti_cache_name, n_probe, n_db_find,
                   caller_tags>>

\* get_nvt_params(oid), from its second read, get_nvt_timeout(ctx, oid), to its end
GetNvtParamsTimeout ==
    /\ pc = "get_nvt_timeout"
    /\ LET timeout == get_single_item(nvt[frame.oid], NVT_TIMEOUT_POS)
           r == nvt_params(frame.prefs, timeout)
       IN  /\ ret' = [op |-> "get_nvt_params", arg |-> frame.oid, kind |-> r.kind,
                      value |-> r.value, error |-> r.error]
           /\ calls' = Append(calls, ReadCall("get_single_item", get_kb_context,
                                              NvtKey(frame.oid), timeout))
           /\ audit' = audit_return(audit, r.kind)
    /\ pc' = "idle"
    /\ frame' = NoFrame
    /\ log' = <<>>
    /\ UNCHANGED <<installed, databases, nvt, prefs, nvti_cache_name, n_probe, n_db_find,
                   caller_tags>>

\* NVTICache._parse_metadata_tags(tags_str, oid) called on its own, with the
\* tag string the caller holds
ParseMetadataTags(oid) ==
    /\ pc = "idle"
    /\ LET r == _parse_metadata_tags(caller_tags, oid)
       IN  /\ ret' = [op |-> "_parse_metadata_tags", arg |-> oid, kind |-> "value",
                      value |-> r.tags_dict, error |-> ""]
           /\ log' = r.log
    /\ calls' = <<>>
    /\ UNCHANGED <<installed, databases, nvt, prefs, nvti_cache_name, pc, frame,
                   n_probe, n_db_find, caller_tags, audit>>

(***************************************************************************)
(* The store's contents                                                    *)
(***************************************************************************)
NumFields == 15
PlainPositions == (1..NumFields) \ {8, 9, 10, 11, 13}

\* a str of two words: the value of the field named w
ValueOf(w) == <<"val", w>>

\* a 15-field record: the fields at the positions in filled hold a value, the
\* others are empty; tag, the three reference fields and timeout as given
MkRecord(filled, tag, refs, timeout) ==
    [i \in 1..NumFields |->
        IF i = NVT_TAGS_POS + 1 THEN tag
        ELSE IF i \in (NVT_CVES_POS + 1)..(NVT_XREFS_POS + 1) THEN refs[i - NVT_CVES_POS]
        ELSE IF i = NVT_TIMEOUT_POS + 1 THEN timeout
        ELSE IF i \in filled THEN ValueOf(subelem[i][1])
        ELSE <<>>]

NoRefs == << <<>>, <<>>, <<>> >>
EmptyRecord == MkRecord({}, <<>>, NoRefs, <<>>)
SampleRecord ==
    MkRecord(PlainPositions, <<"k", "=", "v">>,
             << <<>>, <<>>, Word("URL:x") >>, <<"1", "0">>)

\* "id|||name|||type|||default"
SEP == <<"|", "|", "|">>
Pref3(id, name, type) == id \o SEP \o name \o SEP \o type
Pref4(id, name, type, default) == Pref3(id, name, type) \o SEP \o default

\* the store of the protocol specification: few records, every operation
MainInstalled ==
    {ProbeError, ProbeOutput(<<20, 4, 1>>), ProbeOutput(<<21, 0>>)}
MainDatabases == {{}, {cache_name(<<20, 4, 1>>)}}
MainRecords == {<<>>, EmptyRecord, SampleRecord}
MainPrefLists ==
    {<<>>, <<Pref4(Word("1"), Word("dns-fuzz.timelimit"), Word("entry"), Word("default"))>>}

\* the scanner, or any other client of the shared store, rewrites or deletes
\* the VT record or the preference list of one of oids, one key at a time
Write(oids, records, lists) ==
    /\ \E oid \in oids :
          \/ \E r \in records :
                /\ nvt' = [nvt EXCEPT ![oid] = r]
                /\ prefs' = prefs
          \/ \E p \in lists :
                /\ prefs' = [prefs EXCEPT ![oid] = p]
                /\ nvt' = nvt
    /\ audit' = IF pc = "get_nvt_timeout"
                THEN audit_write(audit, [nvt |-> nvt'[frame.oid], prefs |-> prefs'[frame.oid]])
                ELSE audit
    /\ UNCHANGED <<installed, databases, nvti_cache_name, pc, frame, ret, calls, log,
                   n_probe, n_db_find, caller_tags>>

Writer == Write(OIDs, MainRecords, MainPrefLists)

\* a client as __init__ leaves it
InitClient ==
    /\ nvti_cache_name = NoneVal
    /\ pc = "idle"
    /\ frame = NoFrame
    /\ ret = NoRet
    /\ calls = <<>>
    /\ log = <<>>
    /\ n_probe = 0
    /\ n_db_find = 0

NoTags == caller_tags = <<>>

NoHistory == audit = NoAudit

OnlyAt(oid, list) == [o \in OIDs |-> IF o = oid THEN list ELSE <<>>]

(***************************************************************************)
(* Spec: the protocol.  Every operation, a small store, a writer.          *)
(***************************************************************************)
Init ==
    /\ installed \in MainInstalled
    /\ databases \in MainDatabases
    /\ nvt \in [OIDs -> MainRecords]
    /\ prefs \in [OIDs -> MainPrefLists]
    /\ InitClient
    /\ NoTags
    /\ NoHistory

Next ==
    \/ GetRedisContext
    \/ GetFeedVersion
    \/ \E oid \in OIDs : GetNvtMetadata(oid)
    \/ \E oid \in OIDs : GetNvtRefs(oid)
    \/ \E oid \in OIDs : GetNvtParamsPrefs(oid)
    \/ GetNvtParamsTimeout
    \/ Writer

Spec == Init /\ [][Next]_vars

(***************************************************************************)
(* SpecResolve: the cache locator over every installed version.            *)
(***************************************************************************)
InitResolve ==
    /\ installed \in {ProbeError} \cup {ProbeOutput(v) : v \in Versions}
    /\ databases \in MainDatabases
    /\ nvt = [o \in OIDs |-> <<>>]
    /\ prefs = [o \in OIDs |-> <<>>]
    /\ InitClient
    /\ NoTags
    /\ NoHistory

NextResolve ==
    \/ GetRedisContext
    \/ GetFeedVersion

SpecResolve == InitResolve /\ [][NextResolve]_vars

(***************************************************************************)
(* SpecTags: the tag grammar over every short tag string.                  *)
(***************************************************************************)
MaxTagLen == 4
TagStrings == SeqsUpTo({"k", "v", "=", "|"}, MaxTagLen)

InitTags ==
    /\ installed = ProbeError
    /\ databases = {}
    /\ nvt = [o \in OIDs |-> <<>>]
    /\ prefs = [o \in OIDs |-> <<>>]
    /\ InitClient
    /\ caller_tags \in TagStrings
    /\ NoHistory

NextTags == \E oid \in OIDs : ParseMetadataTags(oid)

SpecTags == InitTags /\ [][NextTags]_vars

(***************************************************************************)
(* SpecMetadata: the record decoder over records with few or all fields    *)
(* filled and every short tag string, field names among its words.         *)
(***************************************************************************)
MaxMetaTagLen == 3
MetaTags == SeqsUpTo({"filename", "name", "=", "|"}, MaxMetaTagLen)
FieldPatterns ==
    {{}, PlainPositions} \cup {{i} : i \in PlainPositions}
SomeRefs == <<Word("CVE-1"), Word("2"), Word("URL:x")>>
MetaRefs == {NoRefs, SomeRefs}
MetaRecords ==
    {MkRecord(f, t, r, IF NVT_TIMEOUT_POS + 1 \in f THEN Word("5") ELSE <<>>) :
        f \in FieldPatterns \cup {{NVT_TIMEOUT_POS + 1}}, t \in MetaTags, r \in MetaRefs}

InitMetadata ==
    /\ installed = ProbeError
    /\ databases = {}
    /\ \E r \in MetaRecords : nvt = OnlyAt("1.2.3.4", r)
    /\ prefs = [o \in OIDs |-> <<>>]
    /\ InitClient
    /\ NoTags
    /\ NoHistory

NextMetadata == \E oid \in OIDs : GetNvtMetadata(oid)

SpecMetadata == InitMetadata /\ [][NextMetadata]_vars

(***************************************************************************)
(* SpecRefs: the references decoder over every short reference field.      *)
(***************************************************************************)
MaxRefLen == 4
RefStrings == SeqsUpTo({"a", ",", " "}, MaxRefLen)
RefTriples ==
    UNION {{<<a, <<>>, Word("URL:x")>>, <<<<>>, a, <<>>>>, <<Word("CVE-1"), <<>>, a>>} :
            a \in RefStrings}
RefRecords == {MkRecord(PlainPositions, <<>>, t, Word("0")) : t \in RefTriples}

InitRefs ==
    /\ installed = ProbeError
    /\ databases = {}
    /\ \E r \in RefRecords : nvt = OnlyAt("1.2.3.4", r)
    /\ prefs = [o \in OIDs |-> <<>>]
    /\ InitClient
    /\ NoTags
    /\ NoHistory

NextRefs == \E oid \in OIDs : GetNvtRefs(oid)

SpecRefs == InitRefs /\ [][NextRefs]_vars

(***************************************************************************)
(* SpecParams: the parameter builder over every short timeout string and   *)
(* short preference lists of 3- and 4-segment entries.                     *)
(***************************************************************************)
MaxTimeoutLen == 2
MaxPrefs == 2
TimeoutStrings == SeqsUpTo({"0", "1", "-"}, MaxTimeoutLen)
PrefIds == {Word("0"), Word("1")}
PrefNames == {<<" ", "n", " ">>}
PrefTypes == {<<>>, Word("entry")}
PrefDefaults == {<<>>, Word("d")}
PrefEntries ==
    {Pref3(i, n, t) : i \in PrefIds, n \in PrefNames, t \in PrefTypes}
    \cup {Pref4(i, n, t, d) : i \in PrefIds, n \in PrefNames, t \in PrefTypes,
                              d \in PrefDefaults}
PrefLists == SeqsUpTo(PrefEntries, MaxPrefs)
ParamRecords == {<<>>} \cup {MkRecord({}, <<>>, NoRefs, t) : t \in TimeoutStrings}

InitParams ==
    /\ installed = ProbeError
    /\ databases = {}
    /\ \E r \in ParamRecords : nvt = OnlyAt("1.2.3.4", r)
    /\ \E p \in PrefLists : prefs = OnlyAt("1.2.3.4", p)
    /\ InitClient
    /\ NoTags
    /\ NoHistory

NextParams ==
    \/ GetNvtParamsPrefs("1.2.3.4")
    \/ GetNvtParamsTimeout

SpecParams == InitParams /\ [][NextParams]_vars

(***************************************************************************)
(* SpecWriter: get_nvt_params on one VT while a writer rewrites or deletes *)
(* its record and its preference list, with the history switched on.       *)
(***************************************************************************)
WriterTimeouts == {Word("0"), <<"1", "0">>}
WriterRecords == {<<>>} \cup {MkRecord({}, <<>>, NoRefs, t) : t \in WriterTimeouts}
WriterPrefLists ==
    {<<>>,
     <<Pref4(Word("1"), <<" ", "n", " ">>, Word("entry"), Word("d"))>>,
     <<Pref4(Word("0"), <<" ", "n", " ">>, <<>>, <<>>)>>}

ParamsWriter == Write({"1.2.3.4"}, WriterRecords, WriterPrefLists)

InitWriter ==
    /\ installed = ProbeError
    /\ databases = {}
    /\ \E r \in WriterRecords : nvt = OnlyAt("1.2.3.4", r)
    /\ \E p \in WriterPrefLists : prefs = OnlyAt("1.2.3.4", p)
    /\ InitClient
    /\ NoTags
    /\ audit = AuditOn

NextWriter ==
    \/ GetNvtParamsPrefs("1.2.3.4")
    \/ GetNvtParamsTimeout
    \/ ParamsWriter

SpecWriter == InitWriter /\ [][NextWriter]_vars

(***************************************************************************)
(* Properties                                                              *)
(***************************************************************************)
ResolvingOps == {"get_redis_context", "get_feed_version"}

\* C1: once the cache is resolved, the version probe and the find-database
\* lookup have each been performed exactly once, whatever number of operations
\* that need the resolved cache have run.
C1_ResolvedOnce ==
    nvti_cache_name # NoneVal => (n_probe = 1 /\ n_db_find = 1)

\* component i of a version, absent components counting as 0
C2_Component(v, i) == IF i <= Len(v) THEN v[i] ELSE 0

\* a >= b, comparing the components numerically from the left
C2_VersionGE(a, b) ==
    \A i \in 1..(Len(a) + Len(b)) :
        (\A j \in 1..(i - 1) : C2_Component(a, j) = C2_Component(b, j))
            => C2_Component(a, i) >= C2_Component(b, i)

C2_Supported == {<<20, 4>>}

C2_Compatible(v) ==
    \E S \in C2_Supported : v[1] = S[1] /\ C2_VersionGE(v, S)

\* C2: for every installed version, an operation that resolves the cache
\* succeeds, and leaves the cache resolved, if and only if some supported entry
\* has the major component of the installed version and is not greater than
\* it; otherwise it fails with the configuration error.  20.4.1 is compatible,
\* 21.0 and 20.3 are not.
C2_CompatibleIffResolved ==
    /\ C2_Compatible(<<20, 4, 1>>)
    /\ ~C2_Compatible(<<21, 0>>)
    /\ ~C2_Compatible(<<20, 3>>)
    /\ (ret.op \in ResolvingOps /\ installed # ProbeError) =>
          /\ (ret.kind # "raise") <=> C2_Compatible(installed.stdout)
          /\ (nvti_cache_name # NoneVal) <=> C2_Compatible(installed.stdout)
          /\ nvti_cache_name # NoneVal =>
                nvti_cache_name.v = cache_name(installed.stdout)
          /\ ret.kind = "raise" => ret.error = "OspdOpenvasError"

C2_Witness ==
    /\ installed = ProbeOutput(<<20, 4, 1>>)
    /\ ret.op = "get_redis_context"
    /\ ret.kind # "raise"
    /\ nvti_cache_name = Val(cache_name(<<20, 4, 1>>))

C3_Unusable ==
    \/ installed = ProbeError
    \/ ~C2_Compatible(installed.stdout)

C4_Segments(e) ==
    CHOOSE q \in PrefIds \X PrefNames \X PrefTypes \X PrefDefaults :
        e = Pref4(q[1], q[2], q[3], q[4])

C4_WellFormed(e) ==
    \E q \in PrefIds \X PrefNames \X PrefTypes \X PrefDefaults :
        e = Pref4(q[1], q[2], q[3], q[4])

\* s without the blanks around it
C4_Trimmed(s) ==
    CHOOSE c \in {SubSeq(s, i, j) : i \in 1..(Len(s) + 1), j \in 0..Len(s)} :
        /\ c = <<>> \/ (c[1] # " " /\ c[Len(c)] # " ")
        /\ \E l, r \in SeqsUpTo({" "}, Len(s)) : s = l \o c \o r

C4_Descriptor(e) ==
    LET q == C4_Segments(e)
    IN  [id |-> q[1], type |-> q[3], name |-> C4_Trimmed(q[2]),
         description |-> Word("Description"),
         default |-> IF q[3] = <<>> THEN <<>> ELSE q[4]]

\* t is an integer in decimal: an optional minus sign, then digits
C4_IsInteger(t) ==
    LET body == IF t # <<>> /\ t[1] = "-" THEN Tail(t) ELSE t
    IN  body # <<>> /\ \A i \in 1..Len(body) : body[i] \in Digits

C4_Positive(t) == t[1] # "-" /\ \E i \in 1..Len(t) : t[i] # "0"

C4_Timeout(oid) == nvt[oid][NVT_TIMEOUT_POS + 1]

\* C4: for an existing VT with an integer timeout t and a preference list P of
\* well-formed 4-segment entries, get_nvt_params returns the map whose keys are
\* the ids of P, and "0" if t > 0, where each id of P maps to the descriptor of
\* the last entry of P with that id and "0", unless P has that id, maps to the
\* synthesized timeout entry with default t.
C4_MergedParams ==
    (/\ ret.op = "get_nvt_params"
     /\ nvt[ret.arg] # <<>>
     /\ C4_IsInteger(C4_Timeout(ret.arg))
     /\ \A i \in 1..Len(prefs[ret.arg]) : C4_WellFormed(prefs[ret.arg][i]))
    => LET t == C4_Timeout(ret.arg)
           P == prefs[ret.arg]
           ids == {C4_Segments(P[i])[1] : i \in 1..Len(P)}
           last(id) == CHOOSE i \in 1..Len(P) :
                          /\ C4_Segments(P[i])[1] = id
                          /\ \A j \in (i + 1)..Len(P) : C4_Segments(P[j])[1] # id
       IN  /\ ret.kind = "value"
           /\ DOMAIN ret.value = ids \cup (IF C4_Positive(t) THEN {Word("0")} ELSE {})
           /\ \A id \in ids : ret.value[id] = C4_Descriptor(P[last(id)])
           /\ (C4_Positive(t) /\ Word("0") \notin ids) =>
                 ret.value[Word("0")] =
                    [id |-> Word("0"), type |-> Word("entry"), name |-> Word("timeout"),
                     description |-> Word("Script Timeout"), default |-> t]

C4_Witness ==
    /\ ret.op = "get_nvt_params"
    /\ ret.kind = "value"
    /\ C4_Timeout(ret.arg) = <<"1", "0">>
    /\ prefs[ret.arg] = << Pref4(Word("1"), <<" ", "n", " ">>, Word("entry"), Word("d")),
                           Pref4(Word("0"), <<" ", "n", " ">>, Word("entry"), Word("d")) >>
    /\ ret.value[Word("0")].name = Word("n")

\* a preference entry of three or four segments, and its segments
C5_Entry(e) ==
    \/ C4_WellFormed(e)
    \/ \E q \in PrefIds \X PrefNames \X PrefTypes : e = Pref3(q[1], q[2], q[3])

C5_Segments(e) ==
    IF C4_WellFormed(e) THEN C4_Segments(e)
    ELSE CHOOSE q \in PrefIds \X PrefNames \X PrefTypes : e = Pref3(q[1], q[2], q[3])

\* C5: the default segment is optional: with an integer timeout and entries of
\* three or four segments get_nvt_params does not fail, and the descriptor of
\* an entry's id has the 4th segment as its default if the entry has a type and
\* a 4th segment, and the empty string if it has no type or no 4th segment.
C5_DefaultOptional ==
    (/\ ret.op = "get_nvt_params"
     /\ nvt[ret.arg] # <<>>
     /\ C4_IsInteger(C4_Timeout(ret.arg))
     /\ \A i \in 1..Len(prefs[ret.arg]) : C5_Entry(prefs[ret.arg][i]))
    => /\ ret.kind = "value"
       /\ LET P == prefs[ret.arg]
              q == C5_Segments(P[Len(P)])
          IN  P # <<>> =>
                 ret.value[q[1]].default =
                    IF q[3] # <<>> /\ Len(q) = 4 THEN q[4] ELSE <<>>

DecodingOps == {"get_nvt_metadata", "get_nvt_refs", "get_nvt_params"}

\* C6: get_nvt_metadata, get_nvt_refs and get_nvt_params never fail, return
\* None exactly when the VT record does not exist in the store at their read of
\* it, whatever the preference list holds, and return a map for every record
\* that exists, one whose fields are all empty included.
C6_AbsentIffMissing ==
    [][ (nvt' = nvt /\ prefs' = prefs /\ pc' = "idle" /\ ret'.op \in DecodingOps) =>
            /\ ret'.kind \in {"None", "value"}
            /\ (ret'.kind = "None") <=> (nvt[ret'.arg] = <<>>) ]_vars

\* the positions of the fields other than tag, cve, bid and xref
C7_Positions == {i \in 1..NumFields : subelem[i] \notin SkippedFields}

C7_WithRefs(r, refs) ==
    [i \in 1..NumFields |->
        IF i \in (NVT_CVES_POS + 1)..(NVT_XREFS_POS + 1) THEN refs[i - NVT_CVES_POS]
        ELSE r[i]]

C7_TagKeys(r, oid) == DOMAIN _parse_metadata_tags(r[NVT_TAGS_POS + 1], oid).tags_dict

\* the statement about the fields at the positions in S of the record r, for
\* the map m that get_nvt_metadata returned
C7_Sparse(S, r, m, oid) ==
    /\ \A i \in S :
          /\ subelem[i] \in DOMAIN m => (r[i] # <<>> /\ m[subelem[i]] = r[i])
          /\ r[i] = <<>> => subelem[i] \notin DOMAIN m
    /\ \A refs \in MetaRefs :
          nvt_metadata(Val(C7_WithRefs(r, refs)), oid).value = m

RECURSIVE C8_Join(_)
C8_Join(list) ==
    IF Len(list) = 1 THEN list[1]
    ELSE list[1] \o <<",", " ">> \o C8_Join(Tail(list))

C8_HasSeparator(s) == \E i \in 1..(Len(s) - 1) : s[i] = "," /\ s[i + 1] = " "

\* C8: for a record that exists get_nvt_refs returns a map with exactly the
\* keys cve, bid and xref; each maps to a list that is not empty, whose elements
\* hold no ", " and joined with ", " give the field back; an empty field maps
\* to the list of one empty string.
C8_SplitRefs ==
    (ret.op = "get_nvt_refs" /\ nvt[ret.arg] # <<>>) =>
        /\ ret.kind = "value"
        /\ DOMAIN ret.value = {Word("cve"), Word("bid"), Word("xref")}
        /\ \A k \in 1..3 :
              LET field == nvt[ret.arg][NVT_CVES_POS + k]
                  list == ret.value[refs_subelem[k]]
              IN  /\ Len(list) >= 1
                  /\ \A j \in 1..Len(list) : ~C8_HasSeparator(list[j])
                  /\ C8_Join(list) = field
                  /\ field = <<>> => list = << <<>> >>

C8_Witness ==
    /\ ret.op = "get_nvt_refs"
    /\ ret.kind = "value"
    /\ ret.value[Word("cve")] = << <<>> >>
    /\ nvt[ret.arg][NVT_CVES_POS + 2] = <<",", "a", ",", " ">>
    /\ ret.value[Word("bid")] = << <<",", "a">>, <<>> >>

\* the segments of a tag string: the runs between its "|"
C9_Starts(s) == {1} \cup {i + 1 : i \in {j \in 1..Len(s) : s[j] = "|"}}

C9_Segment(s, b) ==
    LET bars == {i \in b..Len(s) : s[i] = "|"}
        e == IF bars = {} THEN Len(s)
             ELSE (CHOOSE i \in bars : \A j \in bars : i <= j) - 1
    IN  SubSeq(s, b, e)

C9_HasEq(seg) == \E i \in 1..Len(seg) : seg[i] = "="

C9_FirstEq(seg) ==
    CHOOSE i \in 1..Len(seg) : seg[i] = "=" /\ \A j \in 1..(i - 1) : seg[j] # "="

C9_Key(seg) == SubSeq(seg, 1, C9_FirstEq(seg) - 1)

C9_Value(seg) == SubSeq(seg, C9_FirstEq(seg) + 1, Len(seg))

C10_ReadsAfterResolution ==
    (pc = "get_nvt_timeout" \/ ret.op \in DecodingOps) =>
        /\ \A i \in 1..Len(calls) :
              /\ nvti_cache_name # NoneVal
              /\ Val(calls[i].ctx) = db_find(nvti_cache_name.v)
        /\ C3_Unusable =>
              /\ calls = <<>>
              /\ pc = "idle"
              /\ ret.kind = "raise"

\* the last operation was get_nvt_params and audit holds its history
C11_Returned == pc = "idle" /\ ret.op = "get_nvt_params"

\* the parameter set of one state s of a VT's two keys: None if the record is
\* missing, else the descriptors of the preferences of s and, for a positive
\* timeout, the timeout entry under "0" unless a preference has that id
C11_ParamsOf(s) ==
    LET t == s.nvt[NVT_TIMEOUT_POS + 1]
        P == s.prefs
        ids == {C4_Segments(P[i])[1] : i \in 1..Len(P)}
        entry(id) == CHOOSE i \in 1..Len(P) :
                        /\ C4_Segments(P[i])[1] = id
                        /\ \A j \in (i + 1)..Len(P) : C4_Segments(P[j])[1] # id
    IN  [id \in ids \cup (IF C4_Positive(t) THEN {Word("0")} ELSE {}) |->
            IF id \in ids
            THEN C4_Descriptor(P[entry(id)])
            ELSE [id |-> Word("0"), type |-> Word("entry"), name |-> Word("timeout"),
                  description |-> Word("Script Timeout"), default |-> t]]

\* the outcome r of get_nvt_params is the one that state s of the two keys determines
C11_Matches(r, s) ==
    IF s.nvt = <<>>
    THEN r.kind = "None"
    ELSE r.kind = "value" /\ r.value = C11_ParamsOf(s)

\* no writer changed the VT's two keys between the two reads
C11_NoWriter == audit.seen = {audit.first}

\* without a concurrent writer the result is the one of the single store state
C11_SingleState == (C11_Returned /\ C11_NoWriter) => C11_Matches(ret, audit.first)

\* in every execution the result is made of the preference list as it was at the
\* first read and the record as it was at the second read
C11_PrefsThenTimeout ==
    C11_Returned => C11_Matches(ret, [nvt |-> audit.last.nvt, prefs |-> audit.first.prefs])

\* C11: get_nvt_params reads the preference list and then the timeout in two
\* separate store reads: its result is always the one of the preference list of
\* the first read with the record of the second read, so without a writer
\* between the two reads it is the result of the single store state, and with a
\* writer there are executions (the witness) whose result is the result of no
\* state the store went through, and executions that return None although the
\* record existed when the preference list was read.
C11_TwoReads == C11_SingleState /\ C11_PrefsThenTimeout

\* a call returned None for a VT whose record existed at the first read, and
\* the last call returned a parameter set of no state the two keys went through
\* between its reads
C11_Witness ==
    /\ C11_Returned
    /\ audit.absent_after_present
    /\ ret.kind = "value"
    /\ \A s \in audit.seen : ~C11_Matches(ret, s)


====
